---- MODULE Spec2Model ----
(***************************************************************************)
(* AngelEyes (src/main.py): the interactive annotation loop of             *)
(* ObjectDetectionUI.  One action per stage of run()'s loop body; the      *)
(* drawing passes and calculate_fps are operators used by those actions.   *)
(***************************************************************************)
EXTENDS Integers, Sequences, FiniteSets, TLC

VARIABLES pc, thres, paused, show_stats, detection_history,
          fps_counter, fps_start_time, current_fps,
          model_loaded, classNames, img, detections, key,
          clock, shown, cap_open, windows_open, trace, composed, calls

vars == <<pc, thres, paused, show_stats, detection_history,
          fps_counter, fps_start_time, current_fps,
          model_loaded, classNames, img, detections, key,
          clock, shown, cap_open, windows_open, trace, composed, calls>>

(***************************************************************************)
(* Bounds of the model.                                                    *)
(***************************************************************************)
\* last clock tick at which a loop iteration may still start (Spec)
MaxClock == 2
\* the same horizon for the threshold runs (SpecThres)
MaxThresClock == 40
\* the same horizon for the history runs (SpecHist): more than HistoryCap + 1
\* iterations
MaxHistClock == 102
\* the same horizon for the frame-rate runs (SpecFps): two windows
MaxFpsClock == 62
\* ticks that may pass between two compositions (SpecCompose)
MaxComposeClock == 3

(***************************************************************************)
(* Python floats: IEEE-754 binary64, round-to-nearest-even.  A float in    *)
(* [2^-5, 2) is the integer v = f * 2^57, kept as three limbs              *)
(* <<a2, a1, a0>> with v = a2 * 2^38 + a1 * 2^19 + a0.  Every float the    *)
(* threshold arithmetic produces is such an integer: 0.05 has the          *)
(* smallest exponent, and its unit in the last place is 2^-57.             *)
(***************************************************************************)
Limb == 2^19

\* the literal 0.05 = 7205759403792794 * 2^-57
F005 == <<26214, 209715, 104858>>
\* the literal 0.1 = 14411518807585588 * 2^-57
F01 == <<52428, 419430, 209716>>
\* the literal 0.5 = 2^56 * 2^-57
F05 == <<2^18, 0, 0>>
\* the literal 1.0 = 2^57 * 2^-57
F10 == <<2^19, 0, 0>>

\* carries and borrows of the two low limbs moved up
Carry(a) ==
  LET c0 == a[3] \div Limb
      b1 == a[2] + c0
      c1 == b1 \div Limb
  IN  <<a[1] + c1, b1 % Limb, a[3] % Limb>>

\* a < b
FLess(a, b) ==
  \/ a[1] < b[1]
  \/ a[1] = b[1] /\ a[2] < b[2]
  \/ a[1] = b[1] /\ a[2] = b[2] /\ a[3] < b[3]

\* unit in the last place of a 53-bit significand at the magnitude of a
Ulp(a) ==
  IF a[1] >= 2^19 THEN 32
  ELSE IF a[1] >= 2^18 THEN 16
  ELSE IF a[1] >= 2^17 THEN 8
  ELSE IF a[1] >= 2^16 THEN 4
  ELSE IF a[1] >= 2^15 THEN 2
  ELSE 1

\* the exact value a rounded to the nearest float, ties to even
FRound(a) ==
  LET u == Ulp(a)
      r == a[3] % u
      q == a[3] - r
      up == \/ 2 * r > u
            \/ 2 * r = u /\ (q \div u) % 2 = 1
  IN  Carry(<<a[1], a[2], IF up THEN q + u ELSE q>>)

\* a + b and a - b as Python computes them
FAdd(a, b) == FRound(Carry(<<a[1] + b[1], a[2] + b[2], a[3] + b[3]>>))
FSub(a, b) == FRound(Carry(<<a[1] - b[1], a[2] - b[2], a[3] - b[3]>>))

FMin(a, b) == IF FLess(b, a) THEN b ELSE a
FMax(a, b) == IF FLess(a, b) THEN b ELSE a

\* f"{a:.<d>f}" for scale = 10^d: the digits of a rounded to d decimals
\* (half to even on the exact binary value), as the integer round(a * scale)
FFormat(a, scale) ==
  LET c0 == scale * a[3]
      c1 == scale * a[2] + c0 \div Limb
      c2 == scale * a[1] + c1 \div Limb
      whole == c2 \div Limb
      top == c2 % Limb
      rest == (c1 % Limb) + (c0 % Limb)
      up == \/ top > Limb \div 2
            \/ top = Limb \div 2 /\ rest > 0
            \/ top = Limb \div 2 /\ rest = 0 /\ whole % 2 = 1
  IN  IF up THEN whole + 1 ELSE whole

(***************************************************************************)
(* Key codes (ord of the characters run() compares the key with).          *)
(***************************************************************************)
OrdQ == <<113, 81>>
\* lower case only
OrdS_lower == <<115>>

OrdS == <<115, 83>>
OrdP == <<112, 80>>
OrdR == <<114, 82>>
OrdPlus == <<43, 61>>
OrdMinus == <<45>>

IsKey(k, ords) == \E i \in 1..Len(ords) : k = ords[i]

\* what cv2.waitKey returns: -1 without a key press, else the key code,
\* which may carry modifier bits above the low byte; 120 is 'x'
NoKey == 0 - 1
AllKeys == {NoKey, 113, 81, 115, 83, 112, 80, 114, 82, 43, 61, 45, 120, 256 + 113}
ThresKeys == {NoKey, 43, 61, 45}

\* key = cv2.waitKey(1) & 0xFF
MaskKey(raw) == raw % 256

(***************************************************************************)
(* Threshold commands.                                                     *)
(***************************************************************************)
\* increase without the clamp
increase_threshold_unclamped(t) == FAdd(t, F005)

increase_threshold(t) == FMin(F10, FAdd(t, F005))
decrease_threshold(t) == FMax(F01, FSub(t, F005))

(***************************************************************************)
(* The if/elif chain of "Handle key presses": what key k does to each      *)
(* field (the key sets of the branches are disjoint).                      *)
(***************************************************************************)
quits(k) == IsKey(k, OrdQ)
toggle_stats(k, stats) == IF IsKey(k, OrdS) THEN ~stats ELSE stats
\* a 'p' that is ignored
toggle_pause_ignored(k, isPaused) == isPaused
toggle_pause(k, isPaused) == IF IsKey(k, OrdP) THEN ~isPaused ELSE isPaused
clear_history(k, hist) == IF IsKey(k, OrdR) THEN <<>> ELSE hist
\* the last branch taken as a plain else
adjust_threshold_else(k, t) ==
  IF IsKey(k, OrdPlus) THEN increase_threshold(t)
  ELSE IF IsKey(k, OrdQ) \/ IsKey(k, OrdS) \/ IsKey(k, OrdP) \/ IsKey(k, OrdR) THEN t
  ELSE decrease_threshold(t)

adjust_threshold(k, t) ==
  IF IsKey(k, OrdPlus) THEN increase_threshold(t)
  ELSE IF IsKey(k, OrdMinus) THEN decrease_threshold(t)
  ELSE t

(***************************************************************************)
(* Program constants.                                                      *)
(***************************************************************************)
\* the capture size requested in __init__: img.shape is (720, 1280)
FrameWidth == 1280
FrameHeight == 720
\* bottom row of the header band, height of the footer band
HeaderBottom == 80
FooterHeight == 80
\* labels are kept at or below this row
LabelFloor == 90
\* padding of the label background
LabelPad == 15
\* len(self.colors)
NumColors == 9
\* the FPS window and the capacity of the history
FpsWindow == 30
HistoryCap == 100
\* names listed in the footer
FooterNames == 4

\* the fallback class list of __init__
DefaultNames == <<"person", "bicycle", "car", "motorcycle", "airplane">>
\* a coco.names file as read by __init__ (its first lines)
FileNames == <<"person", "bicycle", "car", "cat", "dog", "horse">>

\* model clock ticks per second of wall-clock time
TicksPerSecond == 2

(***************************************************************************)
(* Text metrics and number formatting used by the drawing passes.          *)
(***************************************************************************)
\* n / d rounded to the nearest integer, ties to even (d > 0, n >= 0)
RoundDiv(n, d) ==
  LET q == n \div d
      r == n % d
  IN  IF 2 * r > d \/ (2 * r = d /\ q % 2 = 1) THEN q + 1 ELSE q

\* height cv2.getTextSize reports for FONT_HERSHEY_SIMPLEX (cap line 12 +
\* base line 9) at fontScale scale10 / 10 and the given thickness
TextHeight(scale10, thickness) ==
  RoundDiv(21 * scale10 + 10 * ((thickness + 1) \div 2), 10)

\* width cv2.getTextSize reports for nchars glyphs, every glyph taken at
\* the 20-unit advance of the font's widest letters
TextWidth(nchars, scale10, thickness) ==
  RoundDiv(20 * nchars * scale10 + 10 * thickness, 10)

\* f"{confidence*100:.1f}" as tenths of a percent; confidence is given in
\* units of 1/10000
ConfTenths(conf) == RoundDiv(conf, 10)

\* number of characters of f"{confidence*100:.1f}%"
ConfChars(conf) ==
  LET t == ConfTenths(conf) \div 10
  IN  (IF t >= 100 THEN 3 ELSE IF t >= 10 THEN 2 ELSE 1) + 3

\* f"{self.current_fps:.1f}" as tenths; current_fps is the ratio f[1] / f[2]
FpsTenths(f) == RoundDiv(10 * f[1], f[2])

\* datetime.now().strftime("%H:%M:%S"): the time of day in whole seconds
TimeText(now) == (now \div TicksPerSecond) % 86400

(***************************************************************************)
(* The drawing passes.  A frame is [raw, ops]: the camera frame it started *)
(* as and the drawing operations applied to its pixels since, in order.    *)
(***************************************************************************)
DrawOp(name, nums, strs) == [op |-> name, n |-> nums, s |-> strs]

Drawn(im, ops) == [raw |-> im.raw, ops |-> im.ops \o ops]

\* draw_header: band over rows 0..80 blended 0.7/0.3, title, settings line
draw_header(im, t, fps) ==
  Drawn(im, << DrawOp("header",
                      <<0, 0, FrameWidth, HeaderBottom, FFormat(t, 10), FpsTenths(fps)>>,
                      <<"AngelEyes - Object Detection">>) >>)

\* top and bottom row of the label background of a box whose top edge is y
LabelY(y) == IF y > LabelFloor THEN y ELSE LabelFloor
LabelBgHeight == (IF TextHeight(8, 2) > TextHeight(5, 1)
                    THEN TextHeight(8, 2) ELSE TextHeight(5, 1)) + LabelPad
LabelBgTop(y) == LabelY(y) - LabelBgHeight

\* the operations draw_enhanced_bounding_boxes applies for detection i
\* (0-based): outline with corner brackets, label background, label texts
BoxOps(d, i) ==
  LET x == d.box[1]
      y == d.box[2]
      w == d.box[3]
      h == d.box[4]
      color == i % NumColors
      label_w == TextWidth(Len(d.class_name), 8, 2)
      conf_w == TextWidth(ConfChars(d.confidence), 5, 1)
      right == x + (IF label_w > conf_w THEN label_w ELSE conf_w) + LabelPad
  IN  << DrawOp("box", <<x, y, x + w, y + h, color>>, <<>>),
         DrawOp("labelbg", <<x, LabelBgTop(y), right, LabelY(y), color>>, <<>>),
         DrawOp("label",
                <<x + 8, LabelBgTop(y) + TextHeight(8, 2) + 3, LabelY(y) - 3,
                  ConfTenths(d.confidence)>>,
                <<d.class_name>>) >>

RECURSIVE AllBoxOps(_, _)
AllBoxOps(dets, i) ==
  IF i >= Len(dets) THEN <<>>
  ELSE BoxOps(dets[i + 1], i) \o AllBoxOps(dets, i + 1)

draw_enhanced_bounding_boxes(im, dets) ==
  IF dets = <<>> THEN im ELSE Drawn(im, AllBoxOps(dets, 0))

\* [d['class_name'] for d in detections]
RECURSIVE ClassNamesOf(_)
ClassNamesOf(dets) ==
  IF dets = <<>> THEN <<>>
  ELSE <<Head(dets).class_name>> \o ClassNamesOf(Tail(dets))

Range(sq) == {sq[i] : i \in 1..Len(sq)}

\* list(set(detected_objects)): the distinct names in the iteration order of
\* a set of strings, which the language leaves open (it follows the string
\* hashes, randomised per process): every arrangement of the distinct names
SetOrders(names) ==
  LET S == Range(names)
  IN  {sq \in [1..Cardinality(S) -> S] : Range(sq) = S}

\* unique_objects[:4]
FirstN(sq, k) == IF Len(sq) <= k THEN sq ELSE SubSeq(sq, 1, k)

\* the footer drawn whatever show_stats says
draw_footer_stats_always(im, dets, stats, now, unique_objects) ==
  Drawn(im,
    << DrawOp("footer",
              <<0, FrameHeight - FooterHeight, FrameWidth, FrameHeight,
                Len(dets), TimeText(now)>>, <<>>) >>
    \o (IF dets # <<>>
          THEN << DrawOp("objects", <<10, FrameHeight - 20>>,
                         FirstN(unique_objects, FooterNames)
                         \o (IF Len(unique_objects) > FooterNames
                               THEN <<"...">> ELSE <<>>)) >>
          ELSE <<>>))

\* draw_footer_stats, with now the wall clock it reads and unique_objects
\* the list it builds from the set of names
draw_footer_stats(im, dets, stats, now, unique_objects) ==
  IF ~stats THEN im
  ELSE Drawn(im,
         << DrawOp("footer",
                   <<0, FrameHeight - FooterHeight, FrameWidth, FrameHeight,
                     Len(dets), TimeText(now)>>, <<>>) >>
         \o (IF dets # <<>>
               THEN << DrawOp("objects", <<10, FrameHeight - 20>>,
                              FirstN(unique_objects, FooterNames)
                              \o (IF Len(unique_objects) > FooterNames
                                    THEN <<"...">> ELSE <<>>)) >>
               ELSE <<>>))

\* the pause indicator of run()
draw_pause_banner(im, isPaused) ==
  IF isPaused
    THEN Drawn(im, << DrawOp("banner", <<FrameWidth \div 2 - 150, FrameHeight \div 2>>,
                             <<"PAUSED - Press P to resume">>) >>)
    ELSE im

(***************************************************************************)
(* calculate_fps and the history update.                                   *)
(***************************************************************************)
\* calculate_fps closing its window only above 30 frames
calculate_fps_above(counter, fps, start, end_time, restart) ==
  IF counter + 1 > FpsWindow
    THEN <<0, <<(counter + 1) * TicksPerSecond, end_time - start>>, restart>>
    ELSE <<counter + 1, fps, start>>

\* calculate_fps: end_time is the first reading of time.time(), restart the
\* second one; the result is <<fps_counter, current_fps, fps_start_time>>,
\* current_fps being the ratio frames : elapsed seconds
calculate_fps(counter, fps, start, end_time, restart) ==
  IF counter + 1 >= FpsWindow
    THEN <<0, <<(counter + 1) * TicksPerSecond, end_time - start>>, restart>>
    ELSE <<counter + 1, fps, start>>

\* the update without its guard on an empty list
update_history_unguarded(hist, dets, now) ==
  LET h == Append(hist, [time |-> now, count |-> Len(dets),
                         objects |-> ClassNamesOf(dets)])
  IN  IF Len(h) > HistoryCap THEN Tail(h) ELSE h

\* the update dropping the newest entry instead of the oldest
update_history_pop_last(hist, dets, now) ==
  IF dets = <<>> THEN hist
  ELSE LET h == Append(hist, [time |-> now, count |-> Len(dets),
                              objects |-> ClassNamesOf(dets)])
       IN  IF Len(h) > HistoryCap THEN SubSeq(h, 1, Len(h) - 1) ELSE h

\* the history update of run(): append, then drop the oldest above the cap
update_history(hist, dets, now) ==
  IF dets = <<>> THEN hist
  ELSE LET h == Append(hist, [time |-> now, count |-> Len(dets),
                              objects |-> ClassNamesOf(dets)])
       IN  IF Len(h) > HistoryCap THEN Tail(h) ELSE h

\* the loop without the lower bound of its range test: classNames[-1] is
\* the last name
RECURSIVE collect_detections_no_lower(_, _)
collect_detections_no_lower(results, names) ==
  IF results = <<>> THEN <<>>
  ELSE LET r == Head(results)
           rest == collect_detections_no_lower(Tail(results), names)
       IN  IF r.classId - 1 < Len(names)
             THEN <<[box |-> r.box,
                     class_name |-> names[IF r.classId = 0 THEN Len(names)
                                          ELSE r.classId],
                     confidence |-> r.confidence, class_id |-> r.classId]>> \o rest
             ELSE rest

\* the loop over zip(classIds, confs, bbox) of run(): results whose class id
\* has a name become detections
RECURSIVE collect_detections(_, _)
collect_detections(results, names) ==
  IF results = <<>> THEN <<>>
  ELSE LET r == Head(results)
           rest == collect_detections(Tail(results), names)
       IN  IF 0 <= r.classId - 1 /\ r.classId - 1 < Len(names)
             THEN <<[box |-> r.box, class_name |-> names[r.classId],
                     confidence |-> r.confidence, class_id |-> r.classId]>> \o rest
             ELSE rest

(***************************************************************************)
(* The state machine of run().                                             *)
(***************************************************************************)
NoFrame == [raw |-> 0, ops |-> <<>>]

\* ObjectDetectionUI.__init__ with the given outcomes of loading the class
\* file and the model
InitWith(names, loaded) ==
  /\ pc = "acquire"
  /\ thres = F05
  /\ paused = FALSE
  /\ show_stats = TRUE
  /\ detection_history = <<>>
  /\ fps_counter = 0
  /\ fps_start_time = 0
  /\ current_fps = <<0, 1>>
  /\ model_loaded = loaded
  /\ classNames = names
  /\ img = NoFrame
  /\ detections = <<>>
  /\ key = 255
  /\ clock = 0
  /\ shown = <<>>
  /\ cap_open = TRUE
  /\ windows_open = FALSE
  /\ trace = <<>>
  /\ composed = <<>>
  /\ calls = <<>>

\* the top of the loop without the break on a failed read
Acquire_no_break(frames, canFail, horizon) ==
  /\ pc = "acquire"
  /\ clock <= horizon
  /\ detections' = <<>>
  /\ calls' = <<>>
  /\ IF paused
       THEN /\ pc' = "detect"
            /\ img' = img
            /\ trace' = <<>>
       ELSE \/ \E f \in frames :
                 /\ img' = [raw |-> f, ops |-> <<>>]
                 /\ pc' = "detect"
                 /\ trace' = <<"read">>
            \/ /\ canFail
               /\ img' = img
               /\ pc' = "detect"
               /\ trace' = <<"read">>
  /\ UNCHANGED <<composed, thres, paused, show_stats, detection_history, fps_counter,
                 fps_start_time, current_fps, model_loaded, classNames, key,
                 clock, shown, cap_open, windows_open>>

\* top of the loop: self.cap.read() unless paused; frames are the frames the
\* camera may deliver, canFail whether the read may fail, horizon the last
\* tick at which an iteration starts
Acquire(frames, canFail, horizon) ==
  /\ pc = "acquire"
  /\ clock <= horizon
  /\ detections' = <<>>
  /\ calls' = <<>>
  /\ IF paused
       THEN /\ pc' = "detect"
            /\ img' = img
            /\ trace' = <<>>
       ELSE \/ \E f \in frames :
                 /\ img' = [raw |-> f, ops |-> <<>>]
                 /\ pc' = "detect"
                 /\ trace' = <<"read">>
            \/ /\ canFail
               /\ img' = img
               /\ pc' = "cleanup"
               /\ trace' = <<"read">>
  /\ UNCHANGED <<composed, thres, paused, show_stats, detection_history, fps_counter,
                 fps_start_time, current_fps, model_loaded, classNames, key,
                 clock, shown, cap_open, windows_open>>

\* the guard without its test of model_loaded
detection_enabled_unloaded(loaded, isPaused) == ~isPaused

\* the guard without its test of paused
detection_enabled_paused(loaded, isPaused) == loaded

\* "if self.model_loaded and not self.paused"
detection_enabled(loaded, isPaused) == loaded /\ ~isPaused

\* a detector error ending the loop as a failed read does
next_after_detect_break(o) == IF o.raised THEN "cleanup" ELSE "history"

\* where run() goes on after the detector answered o: the except clause
\* prints the error and falls through to the history update
next_after_detect(o) == "history"

\* self.net.detect(img, confThreshold=self.thres) under try/except; outputs
\* are what the detector may answer: [raised, results]; a raised error is
\* printed ("error") and leaves detections empty
Detect(outputs) ==
  /\ pc = "detect"
  /\ IF detection_enabled(model_loaded, paused)
       THEN \E o \in outputs :
              /\ detections' = IF o.raised THEN <<>>
                               ELSE collect_detections(o.results, classNames)
              /\ calls' = Append(calls, [frame |-> img, confThreshold |-> thres])
              /\ trace' = trace \o <<"detect">>
                            \o (IF o.raised THEN <<"error">> ELSE <<>>)
              /\ pc' = next_after_detect(o)
       ELSE /\ detections' = <<>>
            /\ calls' = calls
            /\ trace' = trace
            /\ pc' = "history"
  /\ UNCHANGED <<composed, thres, paused, show_stats, detection_history, fps_counter,
                 fps_start_time, current_fps, model_loaded, classNames, img, key,
                 clock, shown, cap_open, windows_open>>

\* "Update detection history"
UpdateHistory ==
  /\ pc = "history"
  /\ pc' = "draw"
  /\ detection_history' = update_history(detection_history, detections, clock)
  /\ trace' = IF detections # <<>> THEN Append(trace, "record") ELSE trace
  /\ UNCHANGED <<calls, composed, thres, paused, show_stats, fps_counter, fps_start_time,
                 current_fps, model_loaded, classNames, img, detections, key,
                 clock, shown, cap_open, windows_open>>

\* the banner drawn only along with the footer
compose_banner_with_footer(im, dets, t, fps, stats, isPaused, now, unique_objects) ==
  draw_pause_banner(
    draw_footer_stats(
      draw_enhanced_bounding_boxes(draw_header(im, t, fps), dets),
      dets, stats, now, unique_objects),
    isPaused /\ stats)

\* "Draw UI elements" and "Show pause indicator": the passes in the order
\* run() applies them
compose(im, dets, t, fps, stats, isPaused, now, unique_objects) ==
  draw_pause_banner(
    draw_footer_stats(
      draw_enhanced_bounding_boxes(draw_header(im, t, fps), dets),
      dets, stats, now, unique_objects),
    isPaused)

\* the drawing stage of an iteration
DrawUI ==
  /\ pc = "draw"
  /\ pc' = "fps"
  /\ \E unique_objects \in SetOrders(ClassNamesOf(detections)) :
       img' = compose(img, detections, thres, current_fps, show_stats, paused,
                      clock, unique_objects)
  /\ trace' = Append(trace, "draw")
  /\ UNCHANGED <<calls, composed, thres, paused, show_stats, detection_history, fps_counter,
                 fps_start_time, current_fps, model_loaded, classNames,
                 detections, key, clock, shown, cap_open, windows_open>>

\* self.calculate_fps(); the clock may advance by a tick of ticks between
\* its two readings of time.time(); a window of no duration raises
CalcFps(ticks) ==
  /\ pc = "fps"
  /\ \E d \in ticks :
       LET r == calculate_fps(fps_counter, current_fps, fps_start_time,
                              clock, clock + d)
       IN  IF fps_counter + 1 >= FpsWindow /\ clock = fps_start_time
             THEN /\ pc' = "crashed"
                  /\ fps_counter' = fps_counter + 1
                  /\ UNCHANGED <<current_fps, fps_start_time, clock>>
             ELSE /\ pc' = "display"
                  /\ fps_counter' = r[1]
                  /\ current_fps' = r[2]
                  /\ fps_start_time' = r[3]
                  /\ clock' = IF fps_counter + 1 >= FpsWindow THEN clock + d ELSE clock
  /\ trace' = Append(trace, "fps")
  /\ UNCHANGED <<calls, composed, thres, paused, show_stats, detection_history, model_loaded,
                 classNames, img, detections, key, shown, cap_open, windows_open>>

\* cv2.imshow
Display ==
  /\ pc = "display"
  /\ pc' = "keys"
  /\ shown' = img
  /\ windows_open' = TRUE
  /\ trace' = Append(trace, "imshow")
  /\ UNCHANGED <<calls, composed, thres, paused, show_stats, detection_history, fps_counter,
                 fps_start_time, current_fps, model_loaded, classNames, img,
                 detections, key, clock, cap_open>>

\* "Handle key presses": keys are the values cv2.waitKey may return
HandleKey(keys) ==
  /\ pc = "keys"
  /\ \E raw \in keys :
       LET k == MaskKey(raw)
       IN  /\ key' = k
           /\ pc' = IF quits(k) THEN "cleanup" ELSE "acquire"
           /\ show_stats' = toggle_stats(k, show_stats)
           /\ paused' = toggle_pause(k, paused)
           /\ detection_history' = clear_history(k, detection_history)
           /\ thres' = adjust_threshold(k, thres)
  /\ clock' = clock + 1
  /\ trace' = Append(trace, "waitKey")
  /\ UNCHANGED <<calls, composed, fps_counter, fps_start_time, current_fps, model_loaded,
                 classNames, img, detections, shown, cap_open, windows_open>>

\* "Cleanup": self.cap.release(), cv2.destroyAllWindows()
Cleanup ==
  /\ pc = "cleanup"
  /\ pc' = "done"
  /\ cap_open' = FALSE
  /\ windows_open' = FALSE
  /\ UNCHANGED <<calls, composed, thres, paused, show_stats, detection_history, fps_counter,
                 fps_start_time, current_fps, model_loaded, classNames, img,
                 detections, key, clock, shown, trace>>

\* an exception raised by the stage run() is at, one of stages: run() has
\* no handler around these calls, the exception leaves run()
StageRaises(stages) ==
  /\ pc \in stages
  /\ pc' = "crashed"
  /\ trace' = Append(trace, "raise")
  /\ UNCHANGED <<calls, composed, thres, paused, show_stats, detection_history, fps_counter,
                 fps_start_time, current_fps, model_loaded, classNames, img,
                 detections, key, clock, shown, cap_open, windows_open>>

(***************************************************************************)
(* Inputs of the specifications.                                           *)
(***************************************************************************)
Result(c, conf, b) == [classId |-> c, confidence |-> conf, box |-> b]
Answer(rs) == [raised |-> FALSE, results |-> rs]
Raised == [raised |-> TRUE, results |-> <<>>]

\* Spec: the whole loop, every key, a short horizon
Outputs == { Answer(<<>>),
             Answer(<<Result(1, 8766, <<100, 50, 60, 40>>)>>),
             Answer(<<Result(4, 6120, <<300, 200, 80, 90>>),
                      Result(4, 5530, <<500, 300, 40, 40>>),
                      Result(5, 9999, <<20, 120, 30, 70>>),
                      Result(0, 7000, <<5, 5, 10, 10>>),
                      Result(6, 8000, <<700, 400, 50, 50>>)>>),
             Raised }

Init == \E names \in {DefaultNames, FileNames}, loaded \in BOOLEAN :
          InitWith(names, loaded)

Next ==
  \/ Acquire({1}, TRUE, MaxClock)
  \/ Detect(Outputs)
  \/ UpdateHistory
  \/ DrawUI
  \/ CalcFps({0})
  \/ Display
  \/ HandleKey(AllKeys)
  \/ Cleanup

Spec == Init /\ [][Next]_vars

\* SpecFaults: the loop with a detector that may answer a box of no width
\* and a confidence above 1, and stages that may raise
MaxFaultClock == 2

FaultOutputs == { Answer(<<>>),
                  Answer(<<Result(1, 15000, <<10, 100, 0, 40>>)>>),
                  Raised }

UnguardedStages == {"draw", "fps", "display", "keys"}

InitFaults == InitWith(DefaultNames, TRUE)

NextFaults ==
  \/ Acquire({1}, TRUE, MaxFaultClock)
  \/ Detect(FaultOutputs)
  \/ UpdateHistory
  \/ DrawUI
  \/ CalcFps({0})
  \/ Display
  \/ HandleKey({NoKey, 113, 112})
  \/ Cleanup
  \/ StageRaises(UnguardedStages)

SpecFaults == InitFaults /\ [][NextFaults]_vars

\* SpecThres: threshold keys only, no detector, a long horizon
InitThres == InitWith(DefaultNames, FALSE)

NextThres ==
  \/ Acquire({1}, TRUE, MaxThresClock)
  \/ Detect({Raised})
  \/ UpdateHistory
  \/ DrawUI
  \/ CalcFps({0})
  \/ Display
  \/ HandleKey(ThresKeys)
  \/ Cleanup

SpecThres == InitThres /\ [][NextThres]_vars

\* SpecHist: every frame has a detection, the keys are none and 'r', the
\* horizon is long enough to overfill the history
InitHist == InitWith(DefaultNames, TRUE)

NextHist ==
  \/ Acquire({1}, TRUE, MaxHistClock)
  \/ Detect({Answer(<<Result(1, 8766, <<100, 50, 60, 40>>)>>)})
  \/ UpdateHistory
  \/ DrawUI
  \/ CalcFps({0})
  \/ Display
  \/ HandleKey({NoKey, 114})
  \/ Cleanup

SpecHist == InitHist /\ [][NextHist]_vars

\* SpecFps: no detector, no keys, the clock may tick between the two
\* readings of calculate_fps
InitFps == InitWith(DefaultNames, FALSE)

NextFps ==
  \/ Acquire({1}, TRUE, MaxFpsClock)
  \/ Detect({Raised})
  \/ UpdateHistory
  \/ DrawUI
  \/ CalcFps({0, 1})
  \/ Display
  \/ HandleKey({NoKey})
  \/ Cleanup

SpecFps == InitFps /\ [][NextFps]_vars

\* SpecCompose: the composition of run() applied twice to one
\* (frame, detections, session state), time passing in between
Detection(name, id, conf, b) ==
  [box |-> b, class_name |-> name, confidence |-> conf, class_id |-> id]

ComposeInputs ==
  { <<>>,
    <<Detection("person", 1, 8766, <<100, 50, 60, 40>>)>>,
    <<Detection("car", 3, 6120, <<300, 200, 80, 90>>),
      Detection("car", 3, 5530, <<500, 300, 40, 40>>),
      Detection("person", 1, 9999, <<20, 120, 30, 70>>)>> }

InitCompose ==
  /\ pc = "compose"
  /\ thres \in {F05, F10}
  /\ paused \in BOOLEAN
  /\ show_stats \in BOOLEAN
  /\ detection_history = <<>>
  /\ fps_counter = 0
  /\ fps_start_time = 0
  /\ current_fps = <<0, 1>>
  /\ model_loaded = TRUE
  /\ classNames = DefaultNames
  /\ img = [raw |-> 1, ops |-> <<>>]
  /\ detections \in ComposeInputs
  /\ key = 255
  /\ clock = 0
  /\ shown = <<>>
  /\ cap_open = TRUE
  /\ windows_open = FALSE
  /\ trace = <<>>
  /\ composed = <<>>
  /\ calls = <<>>

ComposeRun ==
  /\ pc = "compose"
  /\ Len(composed) < 2
  /\ \E unique_objects \in SetOrders(ClassNamesOf(detections)) :
       composed' = Append(composed,
                          [at |-> clock,
                           out |-> compose(img, detections, thres, current_fps,
                                           show_stats, paused, clock,
                                           unique_objects)])
  /\ UNCHANGED <<pc, thres, paused, show_stats, detection_history, fps_counter,
                 fps_start_time, current_fps, model_loaded, classNames, img,
                 detections, key, clock, shown, cap_open, windows_open, trace, calls>>

TimePasses ==
  /\ pc = "compose"
  /\ clock < MaxComposeClock
  /\ clock' = clock + 1
  /\ UNCHANGED <<pc, thres, paused, show_stats, detection_history, fps_counter,
                 fps_start_time, current_fps, model_loaded, classNames, img,
                 detections, key, shown, cap_open, windows_open, trace, composed,
                 calls>>

NextCompose == ComposeRun \/ TimePasses

SpecCompose == InitCompose /\ [][NextCompose]_vars

(***************************************************************************)
(* Properties.                                                             *)
(***************************************************************************)
Min2(a, b) == IF a < b THEN a ELSE b
Max2(a, b) == IF a < b THEN b ELSE a

\* a step of HandleKey; key' is the key it polled
KeyStep == pc = "keys" /\ pc' # "keys"

\* the threshold as run() prints it, f"{self.thres:.2f}", in hundredths
Printed(t) == FFormat(t, 100)

\* C1: the threshold starts at 0.50 and is always within [0.10, 1.00]; a
\* '+' or '=' raises and a '-' lowers the printed threshold by exactly 0.05,
\* except that a step which would leave the range sets the threshold to
\* exactly 1.00 or 0.10; no command raises an error.  (The floats themselves
\* lie within 2^-50 of the printed values.)
C1_ThresholdSteps ==
  /\ [](~FLess(thres, <<52428, 419430, 209716>>) /\ ~FLess(<<524288, 0, 0>>, thres))
  /\ [][KeyStep =>
          /\ pc' # "crashed"
          /\ key' \in {43, 61} =>
               /\ Printed(thres') = Min2(100, Printed(thres) + 5)
               /\ Printed(thres) + 5 > 100 => thres' = <<524288, 0, 0>>
          /\ key' = 45 =>
               /\ Printed(thres') = Max2(10, Printed(thres) - 5)
               /\ Printed(thres) - 5 < 10 => thres' = <<52428, 419430, 209716>>
          /\ key' \notin {43, 61, 45} => thres' = thres]_vars

\* C1 witness: a '+' at the upper bound left the threshold at exactly 1.00,
\* and the lower bound has been reached by a clamped '-'
C1_Witness ==
  \/ key \in {43, 61} /\ thres = <<524288, 0, 0>> /\ clock > 10
  \/ key = 45 /\ thres = <<52428, 419430, 209716>> /\ clock > 9

\* C3: the history update of an iteration whose detection list is empty
\* leaves the history as it was
C3_EmptyKeepsHistory ==
  [][pc = "history" /\ detections = <<>> =>
       detection_history' = detection_history]_vars

\* C3 witness: an update went by with no detections while entries were held
C3_Witness ==
  pc = "draw" /\ detections = <<>> /\ Len(detection_history) >= 1

\* C4: every polled key is routed to its command, letters in either case:
\* q ends the loop for good, s negates show_stats, p negates paused, r
\* empties the history, '+' and '=' raise and '-' lowers the threshold
C4_KeyRouting ==
  /\ [][KeyStep =>
          /\ (key' \in {113, 81}) <=> (pc' = "cleanup")
          /\ key' \notin {113, 81} => pc' = "acquire"
          /\ key' \in {115, 83} => show_stats' = ~show_stats
          /\ key' \in {112, 80} => paused' = ~paused
          /\ key' \in {114, 82} => detection_history' = <<>>
          /\ key' \in {43, 61} => Printed(thres') = Min2(100, Printed(thres) + 5)
          /\ key' = 45 => Printed(thres') = Max2(10, Printed(thres) - 5)]_vars
  /\ [][(pc \in {"cleanup", "done"}) =>
          /\ pc' \in {"cleanup", "done"}
          /\ (UNCHANGED <<img, detections, shown, trace, detection_history>>)]_vars

\* C4 witness: an 'S' has just restored show_stats to its initial value
C4_Witness ==
  pc = "acquire" /\ key = 83 /\ show_stats /\ clock >= 2

\* C5: the command step changes only the field its command targets
C5_KeyFrame ==
  [][KeyStep =>
       /\ UNCHANGED <<fps_counter, fps_start_time, current_fps, model_loaded,
                      classNames>>
       /\ key' \notin {113, 81, 115, 83, 112, 80, 114, 82, 43, 61, 45} =>
            /\ UNCHANGED <<thres, paused, show_stats, detection_history>>
            /\ pc' = "acquire"
       /\ key' \in {114, 82} => UNCHANGED <<thres, paused, show_stats>>
       /\ key' \in {115, 83} => UNCHANGED <<thres, paused, detection_history>>
       /\ key' \in {112, 80} => UNCHANGED <<thres, show_stats, detection_history>>
       /\ key' \in {43, 61, 45} =>
            (UNCHANGED <<paused, show_stats, detection_history>>)]_vars

\* C5 witness: an unrecognised key and an absent key were polled with a
\* history to lose
C5_Witness ==
  pc = "acquire" /\ key \in {120, 255} /\ detection_history # <<>> /\ clock >= 2

\* C2: the history never holds more than 100 entries and is in
\* chronological order; an append to a full history removes exactly the
\* oldest entry and puts the new one last
C2_HistoryFifo ==
  /\ [](/\ Len(detection_history) <= 100
        /\ \A i \in 1..(Len(detection_history) - 1) :
             detection_history[i].time <= detection_history[i + 1].time)
  /\ [][pc = "history" /\ detections # <<>> =>
          LET new == [time |-> clock, count |-> Len(detections),
                      objects |-> ClassNamesOf(detections)]
          IN  IF Len(detection_history) = 100
                THEN /\ detection_history' = Tail(detection_history) \o <<new>>
                     /\ \A i \in 1..100 :
                          detection_history'[i] # detection_history[1]
                ELSE detection_history' = Append(detection_history, new)]_vars

\* C2 witness: 101 frames in a row were recorded: the entry of the first
\* one is gone and that of the 101st is the last of 100
C2_Witness ==
  /\ Len(detection_history) = 100
  /\ detection_history[1].time = 1
  /\ detection_history[100].time = 100

\* the operations of a frame's last composition: from its last header on
LastPass(im) ==
  LET ops == im.ops
      h == CHOOSE i \in 1..Len(ops) :
             ops[i].op = "header" /\ \A j \in (i + 1)..Len(ops) : ops[j].op # "header"
  IN  SubSeq(ops, h, Len(ops))

\* C8: the frame displayed in a paused iteration ends with the pause
\* banner, drawn once, after the header, box and footer passes, whatever
\* show_stats is; the frame of an unpaused iteration has no banner
C8_BannerLast ==
  pc = "keys" =>
    LET o == LastPass(shown)
    IN  /\ shown = img
        /\ paused => /\ o[Len(o)].op = "banner"
                     /\ \A j \in 1..(Len(o) - 1) : o[j].op # "banner"
        /\ ~paused => \A j \in 1..Len(o) : o[j].op # "banner"

\* C8 witness: a paused iteration with the statistics switched off has
\* displayed its frame
C8_Witness ==
  pc = "keys" /\ paused /\ ~show_stats /\ shown.ops[Len(shown.ops)].op = "banner"

\* C6: the label background of a box whose top edge is above row 90 has its
\* top edge at or below the header band (rows 0..80)
C6_LabelBelowHeader ==
  \A i \in 1..(Len(img.ops) - 1) :
    img.ops[i].op = "box" /\ img.ops[i].n[2] < 90 =>
      img.ops[i + 1].op = "labelbg" /\ img.ops[i + 1].n[2] >= 80

\* the distinct elements of a sequence in order of first appearance
RECURSIVE FirstSeen(_)
FirstSeen(sq) ==
  IF sq = <<>> THEN <<>>
  ELSE LET pre == FirstSeen(SubSeq(sq, 1, Len(sq) - 1))
           x == sq[Len(sq)]
       IN  IF x \in Range(pre) THEN pre ELSE Append(pre, x)

\* C7: with show_stats on and detections present the footer lists the
\* class names without duplicates in order of first appearance, the first
\* 4 of them, with an ellipsis exactly when there are more than 4
C7_FooterFirstSeen ==
  pc = "fps" /\ show_stats /\ detections # <<>> =>
    LET u == FirstSeen(ClassNamesOf(detections))
    IN  /\ img.ops[Len(img.ops)].op = "objects"
        /\ img.ops[Len(img.ops)].s =
             FirstN(u, 4) \o (IF Len(u) > 4 THEN <<"...">> ELSE <<>>)

C10_WindowRestartsAtNow ==
  [][pc = "fps" /\ pc' = "display" =>
       IF fps_counter + 1 = 30
         THEN /\ current_fps' = <<30 * TicksPerSecond, clock - fps_start_time>>
              /\ fps_counter' = 0
              /\ fps_start_time' = clock
         ELSE current_fps' = current_fps]_vars

\* e is among the events of tr
Has(tr, e) == \E i \in 1..Len(tr) : tr[i] = e

\* C11: an error raised by the detector is caught: the iteration goes on
\* with no detections (no box drawn, nothing recorded, a footer count of
\* 0), the loop does not end because of it, and every iteration with a
\* loaded model and no pause, so also the next one, calls the detector
C11_DetectionErrorCaught ==
  /\ [](Has(trace, "error") =>
          /\ detections = <<>>
          /\ pc # "crashed"
          /\ pc \in {"cleanup", "done"} =>
               Has(trace, "waitKey") /\ key \in {113, 81}
          /\ pc \in {"fps", "display", "keys"} =>
               \A i \in 1..Len(LastPass(img)) :
                 /\ LastPass(img)[i].op \notin {"box", "labelbg", "label", "objects"}
                 /\ LastPass(img)[i].op = "footer" => LastPass(img)[i].n[5] = 0)
  /\ [][pc = "history" /\ Has(trace, "error") =>
          detection_history' = detection_history /\ pc' = "draw"]_vars
  /\ [][pc = "detect" /\ model_loaded /\ ~paused =>
          Has(trace', "detect") /\ Len(calls') = 1]_vars

\* C11 witness: after an iteration that recorded detections, an iteration
\* whose detector call raised has displayed its frame, footer included
C11_Witness ==
  pc = "keys" /\ Has(trace, "error") /\ show_stats /\ detection_history # <<>>

\* C12: the loop ends only on 'q'/'Q' or a failed read, and however run()
\* stops iterating, a stage's exception included, the capture is released
\* and the windows are destroyed
C12_ReleasedOnEveryExit ==
  /\ pc \in {"cleanup", "done"} =>
       \/ Has(trace, "waitKey") /\ key \in {113, 81}
       \/ trace = <<"read">>
  /\ pc \in {"done", "crashed"} => ~cap_open /\ ~windows_open

\* C13: no detection with a width or height of 0 or less, or a confidence
\* outside [0,1], reaches the history update or the box-drawing pass
C13_InvalidDetectionsDropped ==
  pc \in {"history", "draw"} =>
    \A i \in 1..Len(detections) :
      /\ detections[i].box[3] > 0
      /\ detections[i].box[4] > 0
      /\ 0 <= detections[i].confidence
      /\ detections[i].confidence <= 10000

\* the frame of raw content with nothing drawn on it
Bare(im) == [raw |-> im.raw, ops |-> <<>>]

\* C14: when the model failed to load, the detector is never called, the
\* detection list and the history are empty throughout, and the rest of
\* the loop works: the frame is acquired, composed of header, footer and
\* banner as the session state says, counted by the frame-rate update,
\* displayed, and every key command has its effect
C14_NoModelNoDetections ==
  /\ [](~model_loaded =>
          /\ detections = <<>>
          /\ detection_history = <<>>
          /\ calls = <<>>
          /\ ~Has(trace, "detect")
          /\ pc # "crashed"
          /\ pc = "fps" =>
               LastPass(img) =
                 compose(Bare(img), <<>>, thres, current_fps, show_stats,
                         paused, clock, <<>>).ops
          /\ pc = "keys" =>
               /\ shown = img
               /\ img.raw # 0
               /\ trace = (IF paused THEN <<>> ELSE <<"read">>)
                            \o <<"draw", "fps", "imshow">>)
  /\ [][model_loaded' = model_loaded]_vars
  /\ [][pc = "fps" /\ ~model_loaded =>
          fps_counter' = (fps_counter + 1) % FpsWindow]_vars
  /\ [][KeyStep /\ ~model_loaded =>
          /\ thres' = adjust_threshold(key', thres)
          /\ paused' = toggle_pause(key', paused)
          /\ show_stats' = toggle_stats(key', show_stats)
          /\ pc' = IF quits(key') THEN "cleanup" ELSE "acquire"]_vars

\* C14 witness: without a model, a third iteration has displayed its frame
\* after a pause command and a stats toggle took effect
C14_Witness ==
  ~model_loaded /\ pc = "keys" /\ clock = 2 /\ paused /\ ~show_stats

\* the frame on display is that of a paused iteration: it ends with the banner
PausedShown ==
  shown # <<>> /\ LastPass(shown)[Len(LastPass(shown))].op = "banner"

\* C15: in a paused iteration the frame the header pass receives is the
\* raw frame last acquired, with nothing drawn on it in an earlier
\* iteration; so a paused iteration that composes what the paused iteration
\* before it composed displays the very same frame
C15_PausedFrameIsRaw ==
  /\ [](pc = "draw" /\ paused => img.raw # 0 /\ img.ops = <<>>)
  /\ [][pc = "display" /\ paused /\ PausedShown /\ LastPass(shown) = LastPass(img)
          => shown' = shown]_vars

\* the stages of an iteration after its acquisition, and after its detection
AfterAcquire == {"detect", "history", "draw", "fps", "display", "keys"}
AfterDetect == {"history", "draw", "fps", "display", "keys"}

\* C16: a paused iteration reads no frame, does not call the detector, has
\* an empty detection list and appends nothing to the history; an unpaused
\* iteration with a loaded model calls the detector exactly once, on the
\* frame it acquired and with the threshold the iteration started with
C16_PauseGatesDetection ==
  /\ [](paused /\ pc \in AfterAcquire =>
          /\ ~Has(trace, "read")
          /\ ~Has(trace, "detect")
          /\ ~Has(trace, "record")
          /\ calls = <<>>
          /\ detections = <<>>)
  /\ [][paused /\ pc \in {"acquire", "detect", "history"} =>
          detection_history' = detection_history /\ img' = img]_vars
  /\ [](~paused /\ model_loaded /\ pc \in AfterDetect =>
          /\ Len(calls) = 1
          /\ calls[1].confThreshold = thres
          /\ calls[1].frame = Bare(img)
          /\ Len(SelectSeq(trace, LAMBDA e : e = "detect")) = 1)
  /\ [][(pc \in {"acquire", "detect"}) => thres' = thres /\ paused' = paused]_vars

\* C16 witness: a paused iteration has displayed its frame, after an
\* iteration that detected with a changed threshold and recorded the result
C16_Witness ==
  /\ pc = "keys" /\ paused /\ model_loaded
  /\ detection_history # <<>>
  /\ detection_history[Len(detection_history)].time = clock - 1
  /\ thres # F05

\* C17: after every call of calculate_fps, and so between iterations, the
\* frame counter is within 0..29; a call resets it to 0 exactly when it is
\* the 30th since the last reset (or since the start), every other call
\* adds 1; the published fps changes on no other call and in no other stage
C17_CounterBelowWindow ==
  /\ [](fps_counter \in 0..(FpsWindow - 1))
  /\ [][pc = "fps" =>
          /\ pc' = "display"
          /\ fps_counter' = (fps_counter + 1) % FpsWindow
          /\ fps_counter' = 0 <=> fps_counter = FpsWindow - 1
          /\ current_fps' # current_fps => fps_counter' = 0]_vars
  /\ [][pc # "fps" =>
          fps_counter' = fps_counter /\ current_fps' = current_fps]_vars

\* C17 witness: the 60th call has reset the counter a second time and
\* published a frame rate
C17_Witness ==
  pc = "display" /\ fps_counter = 0 /\ clock >= 2 * FpsWindow - 1
    /\ current_fps # <<0, 1>>

\* the events of an iteration in the order of its stages
StageOrder == <<"read", "detect", "error", "record", "draw", "fps", "imshow", "waitKey">>

StageRank(e) == CHOOSE i \in 1..Len(StageOrder) : StageOrder[i] = e

\* im carries op in its last composition
Shows(im, op) == \E i \in 1..Len(LastPass(im)) : LastPass(im)[i].op = op

\* C18: the stages of an iteration run in the order acquire, detect,
\* history update, compose, frame-rate update, display, key poll, each at
\* most once, so one key at most is consumed; the key step changes nothing
\* of what the iteration displayed, and its command shows from the next
\* iteration on: after 'p' that iteration reads no frame and displays the
\* banner, after 's' it displays the footer or not, after a threshold key
\* its header prints and its detector call uses the new threshold
C18_StagesInOrder ==
  /\ [](/\ \A i \in 1..Len(trace) : trace[i] \in Range(StageOrder)
        /\ \A i, j \in 1..Len(trace) :
             i < j => StageRank(trace[i]) < StageRank(trace[j])
        /\ pc = "keys" =>
             /\ SubSeq(trace, Len(trace) - 2, Len(trace)) = <<"draw", "fps", "imshow">>
             /\ shown = img
        /\ pc = "acquire" /\ trace # <<>> =>
             SubSeq(trace, Len(trace) - 3, Len(trace))
               = <<"draw", "fps", "imshow", "waitKey">>)
  /\ [][KeyStep =>
          /\ shown' = shown /\ img' = img /\ detections' = detections
          /\ Shows(shown', "banner") <=> paused
          /\ (key' \in {112, 80}) => paused' = ~paused
          /\ (key' \in {115, 83}) => show_stats' = ~show_stats]_vars
  /\ [][pc = "acquire" /\ paused => img' = img /\ trace' = <<>>]_vars
  /\ [](pc \in {"fps", "display", "keys"} =>
          /\ Shows(img, "banner") <=> paused
          /\ Shows(img, "footer") <=> show_stats
          /\ LastPass(img)[1].n[5] = FFormat(thres, 10)
          /\ calls # <<>> => calls[1].confThreshold = thres)

\* C18 witness: after a threshold key in one iteration and 'p' in the
\* next, the iteration after them has read no frame and displays the banner
C18_Witness ==
  /\ pc = "keys" /\ paused /\ key = 112 /\ thres # F05
  /\ ~Has(trace, "read") /\ Shows(shown, "banner")

\* C19: whenever the detection, composition or display stage runs, the
\* iteration holds a frame of a successful read: paused is false at the
\* start and becomes true only in the key step of an iteration holding and
\* displaying such a frame, and an iteration whose read fails runs no
\* stage but the release
C19_FrameBeforeStages ==
  /\ [](pc \in AfterAcquire => img.raw # 0)
  /\ [](calls # <<>> => calls[1].frame.raw # 0)
  /\ [](shown # <<>> => shown.raw # 0)
  /\ [](paused => img.raw # 0)
  /\ [][~paused /\ paused' =>
          KeyStep /\ img.raw # 0 /\ shown = img]_vars
  /\ [][pc = "acquire" /\ pc' # "detect" =>
          /\ pc' = "cleanup" /\ ~paused
          /\ trace' = <<"read">>
          /\ shown' = shown
          /\ detection_history' = detection_history]_vars
  /\ [][(pc \in {"cleanup", "done"}) =>
          /\ pc' = "done"
          /\ trace' = trace /\ shown' = shown]_vars

\* C19 witness: after 'p', a paused iteration is composing the frame of
\* the iteration before it
C19_Witness ==
  pc = "draw" /\ paused /\ clock = 2 /\ key \in {112, 80} /\ img.raw # 0

\* C20: every history entry has a count of 1 or more and as many object
\* names as its count, each a name of classNames; every detection carries
\* the name at index class_id - 1 of classNames (Python counts from 0) with
\* 0 <= class_id - 1 < len(classNames), so a result whose class id is
\* outside that range is neither recorded nor drawn: the entry recorded
\* and the boxes and names drawn are those of the detections
C20_NamedDetectionsOnly ==
  /\ [](\A i \in 1..Len(detection_history) :
          /\ detection_history[i].count >= 1
          /\ Len(detection_history[i].objects) = detection_history[i].count
          /\ Range(detection_history[i].objects) \subseteq Range(classNames))
  /\ [](\A i \in 1..Len(detections) :
          /\ 0 <= detections[i].class_id - 1
          /\ detections[i].class_id - 1 < Len(classNames)
          /\ detections[i].class_name = classNames[detections[i].class_id])
  /\ [][pc = "history" /\ detections # <<>> =>
          LET e == detection_history'[Len(detection_history')]
          IN  /\ e.count = Len(detections)
              /\ e.objects = ClassNamesOf(detections)]_vars
  /\ [](pc = "fps" =>
          LET labels == SelectSeq(LastPass(img), LAMBDA o : o.op = "label")
          IN  /\ Len(labels) = Len(detections)
              /\ \A i \in 1..Len(labels) :
                   labels[i].s = <<detections[i].class_name>>
              /\ \A i \in 1..Len(LastPass(img)) :
                   LastPass(img)[i].op = "objects" =>
                     Range(LastPass(img)[i].s)
                       \subseteq Range(classNames) \cup {"..."})

\* C20 witness: of five results, one with class id 0 and one with class id
\* 6 of 5 names, the three named ones have been recorded
C20_Witness ==
  /\ pc = "draw" /\ Len(classNames) = 5 /\ Len(detections) = 3
  /\ detection_history # <<>>
  /\ detection_history[Len(detection_history)].count = 3

====
